---- MODULE Spec2Model ----
(***************************************************************************)
(* Model Execution Gateway of CHARMTwinsights                               *)
(* (src/app/model_server/model_server/main.py).                             *)
(*                                                                         *)
(* Texts (container output, file contents) are sequences of one-character  *)
(* strings.  JSON documents are decoded into records                       *)
(*   [t |-> "null" | "num" | "arr", n |-> Int, a |-> Seq(value)]           *)
(* so that every decoded value has the same shape.  Python's None is the   *)
(* decoded JSON null.                                                      *)
(***************************************************************************)
EXTENDS Integers, Sequences, FiniteSets, TLC

(* ------------------------------------------------------------------ *)
(* Text and JSON primitives used by the gateway                        *)
(* ------------------------------------------------------------------ *)

JNull == [t |-> "null", n |-> 0, a |-> <<>>]
JNum(k) == [t |-> "num", n |-> k, a |-> <<>>]
JArr(s) == [t |-> "arr", n |-> 0, a |-> s]

\* Python truthiness of a decoded value: None, 0 and [] are falsy.
Truthy(v) ==
    CASE v.t = "null" -> FALSE
      [] v.t = "num" -> v.n # 0
      [] OTHER -> Len(v.a) > 0

\* Characters removed by str.strip().
StripChars == {" ", "\n", "\t", "\r", "\f"}

\* Whitespace accepted by the JSON decoder between tokens.
JsonWs == {" ", "\n", "\t", "\r"}

Digits == <<"0", "1", "2", "3", "4", "5", "6", "7", "8", "9">>

IsDigit(c) == \E k \in 1..10 : Digits[k] = c

DigitVal(c) == (CHOOSE k \in 1..10 : Digits[k] = c) - 1

RECURSIVE LStrip(_)
LStrip(s) ==
    IF s = <<>> THEN s
    ELSE IF Head(s) \in StripChars THEN LStrip(Tail(s)) ELSE s

RECURSIVE RStrip(_)
RStrip(s) ==
    IF s = <<>> THEN s
    ELSE IF s[Len(s)] \in StripChars THEN RStrip(SubSeq(s, 1, Len(s) - 1)) ELSE s

\* str.strip()
Strip(s) == RStrip(LStrip(s))

RECURSIVE SkipWs(_, _)
SkipWs(s, i) ==
    IF i <= Len(s) /\ s[i] \in JsonWs THEN SkipWs(s, i + 1) ELSE i

ParseFail == [ok |-> FALSE, v |-> JNull, i |-> 0]
ParseOk(v, i) == [ok |-> TRUE, v |-> v, i |-> i]

RECURSIVE ParseDigits(_, _, _)
ParseDigits(s, i, acc) ==
    IF i <= Len(s) /\ IsDigit(s[i])
    THEN ParseDigits(s, i + 1, acc * 10 + DigitVal(s[i]))
    ELSE ParseOk(JNum(acc), i)

\* A JSON number: a lone 0 or a digit string without a leading zero.
ParseNumber(s, i) ==
    IF s[i] = "0" THEN ParseOk(JNum(0), i + 1) ELSE ParseDigits(s, i, 0)

IsNullAt(s, i) ==
    /\ i + 3 <= Len(s)
    /\ SubSeq(s, i, i + 3) = <<"n", "u", "l", "l">>

RECURSIVE ParseValue(_, _)
RECURSIVE ParseElems(_, _, _)
ParseValue(s, i) ==
    IF i > Len(s) THEN ParseFail
    ELSE IF s[i] = "["
         THEN LET j == SkipWs(s, i + 1)
              IN IF j <= Len(s) /\ s[j] = "]"
                 THEN ParseOk(JArr(<<>>), j + 1)
                 ELSE ParseElems(s, j, <<>>)
    ELSE IF IsDigit(s[i]) THEN ParseNumber(s, i)
    ELSE IF IsNullAt(s, i) THEN ParseOk(JNull, i + 4)
    ELSE ParseFail

ParseElems(s, i, acc) ==
    LET r == ParseValue(s, i)
    IN IF ~r.ok THEN ParseFail
       ELSE LET j == SkipWs(s, r.i)
            IN IF j > Len(s) THEN ParseFail
               ELSE IF s[j] = ","
                    THEN ParseElems(s, SkipWs(s, j + 1), Append(acc, r.v))
               ELSE IF s[j] = "]"
                    THEN ParseOk(JArr(Append(acc, r.v)), j + 1)
               ELSE ParseFail

\* json.loads / json.load: one document, surrounded by optional whitespace.
\* The text is read once and parsed once.
JsonLoads(s) ==
    CHOOSE doc \in UNION { { IF r.ok /\ SkipWs(t, r.i) > Len(t)
                               THEN [ok |-> TRUE, v |-> r.v]
                               ELSE [ok |-> FALSE, v |-> JNull] :
                             r \in {ParseValue(t, SkipWs(t, 1))} } :
                           t \in {s} } : TRUE

RECURSIVE NumText(_)
NumText(k) ==
    IF k < 10 THEN <<Digits[k + 1]>>
    ELSE NumText(k \div 10) \o <<Digits[(k % 10) + 1]>>

\* json.dump with the default separators (", " between array items).
RECURSIVE JsonDumps(_)
RECURSIVE DumpItems(_)
JsonDumps(v) ==
    CASE v.t = "null" -> <<"n", "u", "l", "l">>
      [] v.t = "num" -> NumText(v.n)
      [] OTHER -> <<"[">> \o DumpItems(v.a) \o <<"]">>

DumpItems(items) ==
    IF items = <<>> THEN <<>>
    ELSE IF Len(items) = 1 THEN JsonDumps(items[1])
    ELSE JsonDumps(items[1]) \o <<",", " ">> \o DumpItems(Tail(items))

\* bytes.decode('utf-8'): the byte "xFF" never occurs in valid UTF-8.
BadByte == "xFF"
DecodeOk(b) == \A k \in 1..Len(b) : b[k] # BadByte

(* ------------------------------------------------------------------ *)
(* Output classification (main.py lines 127-154)                       *)
(* ------------------------------------------------------------------ *)

stderr_indicators ==
    << <<"L", "o", "a", "d", "i", "n", "g">>,
       <<"P", "r", "o", "c", "e", "s", "s", "i", "n", "g">>,
       <<"G", "e", "n", "e", "r", "a", "t", "e", "d">>,
       <<"w", "r", "i", "t", "t", "e", "n", " ", "t", "o">>,
       <<"E", "r", "r", "o", "r", ":">>,
       <<"W", "a", "r", "n", "i", "n", "g", ":">>,
       <<"M", "o", "d", "e", "l", " ", "l", "o", "a", "d", "e", "d">>,
       <<"C", "o", "m", "p", "l", "e", "t", "e", "d", " ", "p", "r", "o", "c", "e", "s", "s", "i", "n", "g">>,
       <<"r", "e", "c", "o", "r", "d", "s">>,
       <<"S", "t", "a", "r", "t", "i", "n", "g">>,
       <<"S", "u", "c", "c", "e", "s", "s", "f", "u", "l", "l", "y", " ", "g", "e", "n", "e", "r", "a", "t", "e", "d">> >>

\* phrase in line
HasSub(line, m) ==
    \E k \in 1..(Len(line) - Len(m) + 1) : SubSeq(line, k, k + Len(m) - 1) = m

IsStderrLineNever(line) == FALSE
\* any(phrase in line for phrase in stderr_indicators); the line is
\* evaluated once and then searched.
IsStderrLine(line) ==
    \E l \in {line} :
        \E k \in 1..Len(stderr_indicators) : HasSub(l, stderr_indicators[k])

\* raw_output.split('\n')
RECURSIVE SplitLines(_, _, _)
SplitLines(s, i, cur) ==
    IF i > Len(s) THEN <<cur>>
    ELSE IF s[i] = "\n" THEN <<cur>> \o SplitLines(s, i + 1, <<>>)
    ELSE SplitLines(s, i + 1, Append(cur, s[i]))

\* '\n'.join(lines)
RECURSIVE JoinLines(_)
JoinLines(lines) ==
    IF lines = <<>> THEN <<>>
    ELSE IF Len(lines) = 1 THEN lines[1]
    ELSE lines[1] \o <<"\n">> \o JoinLines(Tail(lines))

RECURSIVE SelectLines(_, _)
SelectLines(lines, wantStderr) ==
    IF lines = <<>> THEN <<>>
    ELSE LET line == Strip(Head(lines))
             rest == SelectLines(Tail(lines), wantStderr)
         IN IF line = <<>> THEN rest
            ELSE IF IsStderrLine(line) = wantStderr THEN <<line>> \o rest
            ELSE rest

\* The output is split once; both lists are built from the same lines.
Classify(raw) ==
    CHOOSE c \in { [stdout |-> Strip(JoinLines(SelectLines(lines, FALSE))),
                    stderr |-> Strip(JoinLines(SelectLines(lines, TRUE)))] :
                   lines \in {SplitLines(raw, 1, <<>>)} } : TRUE

(* ------------------------------------------------------------------ *)
(* Bounds and input domains                                            *)
(* ------------------------------------------------------------------ *)

\* Number of session tokens uuid4 hands out before the model stops.
MaxSessions == 4

\* Longest list of built-in descriptor files found at startup.
MaxBuiltins == 1

\* Longest list of descriptor files in the runs of startup alone.
MaxStartupBuiltins == 2

\* wait_for_mongodb: max_retries
max_retries == 30

Boot == "boot"
Workers == {"w1"}
Procs == {Boot} \cup Workers

\* Request handlers run on a thread pool: two requests served at once.
ConcWorkers == {"w1", "w2"}
AllProcs == {Boot} \cup ConcWorkers

\* m1 is built locally and never published, m2 is published on the remote
\* registry but not yet local, m3 is neither.
Images == {"m1", "m2", "m3"}
LocalAtStart == {"m1"}
Published == {"m2"}

NoneT == [has |-> FALSE, val |-> <<>>]
SomeT(x) == [has |-> TRUE, val |-> x]
NoneV == [has |-> FALSE, val |-> JNull]
SomeV(x) == [has |-> TRUE, val |-> x]

Ex1 == JArr(<<JNum(1)>>)
Ex2 == JArr(<<JNum(2)>>)

\* examples as sent by a caller or written in a descriptor: omitted
\* (None), an empty list, a list with one payload.
ReqExamples == {JNull, JArr(<<>>), Ex1}

\* readme as sent by a caller or written in a descriptor.
ReqReadmes == {NoneT, SomeT(<<>>), SomeT(<<"a">>)}

ReqTitles == {"t1", "t2"}

NoReq ==
    [image |-> "none", title |-> "none", short_description |-> "none",
     authors |-> "none", examples |-> JNull, readme |-> NoneT, input |-> JNull]

\* RegisterRequest bodies.
RegisterRequests ==
    { [image |-> im, title |-> ti,
       short_description |-> IF ti = "t1" THEN "d1" ELSE "d2",
       authors |-> IF ti = "t1" THEN "a1" ELSE "a2",
       examples |-> ex, readme |-> rd, input |-> JNull] :
      im \in Images, ti \in ReqTitles, ex \in ReqExamples, rd \in ReqReadmes }

\* Built-in descriptor files (model_metadata.json) found at startup.
BuiltinDescriptors ==
    { r \in RegisterRequests :
        /\ r.title = "t1"
        /\ \/ r.examples = Ex1 /\ r.readme = SomeT(<<"a">>)
           \/ r.examples = JNull /\ r.readme = NoneT /\ r.image # "m3"
           \/ r.examples = JArr(<<>>) /\ r.readme = SomeT(<<>>) /\ r.image = "m1" }

RECURSIVE SeqsUpTo(_, _)
SeqsUpTo(S, k) ==
    IF k = 0 THEN {<<>>}
    ELSE LET shorter == SeqsUpTo(S, k - 1)
         IN shorter \cup { Append(q, x) : q \in shorter, x \in S }

PredictRequests ==
    { [NoReq EXCEPT !.image = im, !.input = Ex1] : im \in Images }

\* What the image ships at /app/README.md and /app/examples.json: no
\* file, a text, or (the readme) a file that is not UTF-8.
ImageReadmes == {NoneT, SomeT(<<"b">>), SomeT(<<"b", BadByte>>)}
ImageExamples == {NoneT, SomeT(<<"[", "2", "]">>), SomeT(<<"[", "2">>),
                  SomeT(<<"n", "u", "l", "l">>)}

\* Combined output a container may print.
OutTexts ==
    { <<>>,
      <<"[", "3", "]", "\n">>,
      <<"L", "o", "a", "d", "i", "n", "g", " ", "m", "o", "d", "e", "l", "\n", "[", "3", "]">>,
      <<"[", "3", "]", "\n", BadByte>> }

\* What a container may leave in its output file.
FileTexts == {NoneT, SomeT(<<"[", "4", "]">>), SomeT(<<"[", "4">>), SomeT(<<"[", "]">>)}

\* Ways the two-argument run can end: exit status, output file, output.
NewOutcomes ==
    { [exit |-> 0, file |-> f, out |-> o] : f \in FileTexts, o \in OutTexts }
    \cup { [exit |-> 1, file |-> f, out |-> <<>>] : f \in FileTexts }

\* Ways the single-argument run can end.
LegacyOutcomes ==
    { [exit |-> 0, out |-> o] : o \in OutTexts } \cup { [exit |-> 1, out |-> <<>>] }

(* ------------------------------------------------------------------ *)
(* State                                                               *)
(* ------------------------------------------------------------------ *)

VARIABLES
    registry,   \* models_collection: the set of stored documents
    volume,     \* files on /shared-tmp: records [kind, sid, text]
    local,      \* images in the local image store
    nextSid,    \* source of uuid4 session tokens
    phase,      \* "startup", "serving" or "failed" (startup_event raised)
    builtins,   \* descriptor files found under BUILTIN_MODELS_PATH
    pc,         \* position of each handler
    loc,        \* local variables of each handler
    resp,       \* response of the handler that has finished
    log         \* what the current handler has done so far, in order

vars == <<registry, volume, local, nextSid, phase, builtins, pc, loc, resp, log>>

NoExc == [tag |-> "none", cause |-> "none", info |-> NoneT]
Exc(tag, cause, info) == [tag |-> tag, cause |-> cause, info |-> info]

NoResp ==
    [status |-> 0, detail |-> "none", exc |-> NoExc, predictions |-> JNull,
     stdout |-> <<>>, stderr |-> <<>>]

\* What the query part of replace_one has matched: nothing, or one document.
NoTarget == [has |-> FALSE, oid |-> 0]
Target(d) == [has |-> TRUE, oid |-> d.oid]

Loc0 ==
    [kind |-> "none", req |-> NoReq,
     cm_readme |-> NoneT, cm_examples |-> NoneV,
     examples |-> JNull, readme |-> NoneT,
     sid |-> 0, input_data |-> JNull, cres |-> NoneT,
     new_pattern_used |-> FALSE, new_file |-> NoneT, replaced |-> {},
     preds |-> JNull, stdout |-> <<>>, stderr |-> <<>>, exc |-> NoExc,
     attempt |-> 0, sleeps |-> 0,
     idx |-> 0, registered_count |-> 0, failed_count |-> 0,
     outcomes |-> <<>>, boot_exc |-> NoExc, mongo_ready |-> FALSE,
     last_out |-> NoneT, target |-> NoTarget]

\* ---- shared volume ------------------------------------------------
File(kind, sid, text) == [kind |-> kind, sid |-> sid, text |-> text]

\* os.path.exists
Exists(vol, kind, sid) == \E f \in vol : f.kind = kind /\ f.sid = sid

\* open(path).read()
ReadFile(vol, kind, sid) ==
    (CHOOSE f \in vol : f.kind = kind /\ f.sid = sid).text

\* open(path, "w"): create or truncate, then write
WriteFile(vol, kind, sid, text) ==
    { f \in vol : ~(f.kind = kind /\ f.sid = sid) } \cup {File(kind, sid, text)}

\* os.remove on each path that exists
RemoveFiles(vol, kinds, sid) ==
    { f \in vol : ~(f.kind \in kinds /\ f.sid = sid) }

\* finally-block of _run_model_container
CleanupRunOnlyInput(vol, sid) == RemoveFiles(vol, {"input"}, sid)
CleanupRunAllSessions(vol, sid) == { f \in vol : f.kind \notin {"input", "output"} }
CleanupRun(vol, sid) == RemoveFiles(vol, {"input", "output"}, sid)

CleanupExtractOnlyReadme(vol, sid) == RemoveFiles(vol, {"readme"}, sid)
\* finally-block of _extract_container_metadata
CleanupExtract(vol, sid) == RemoveFiles(vol, {"readme", "examples"}, sid)

\* ---- registry -----------------------------------------------------
Doc(image, title, sd, authors, readme, examples) ==
    [image |-> image, title |-> title, short_description |-> sd,
     authors |-> authors, readme |-> readme, examples |-> examples]

\* A document as the collection holds it: the fields written by
\* replace_one and the _id the store gave it at insertion.  Only the
\* distinctness of _id among the documents of an image matters here.
Stored(doc, oid) ==
    [image |-> doc.image, title |-> doc.title,
     short_description |-> doc.short_description, authors |-> doc.authors,
     readme |-> doc.readme, examples |-> doc.examples, oid |-> oid]

\* The fields of a stored document without its _id
Fields(d) ==
    Doc(d.image, d.title, d.short_description, d.authors, d.readme, d.examples)

Matching(coll, image) == { d \in coll : d.image = image }

\* models_collection.find_one({"image": image}) is not None
Found(coll, image) == Matching(coll, image) # {}

\* The documents find_one({"image": image}) may return: with several
\* matches the store returns any one of them.
FindOne(coll, image) == Matching(coll, image)

\* The filter {"image": image} of replace_one matches any one of the
\* documents of the image, or nothing.
UpsertTargets(coll, image) ==
    IF Matching(coll, image) = {} THEN {NoTarget}
    ELSE { Target(d) : d \in Matching(coll, image) }

\* The _id of a newly inserted document
FreshOid(coll, image) ==
    1 + Cardinality(Matching(coll, image))

\* The document of an image with a given _id
At(coll, image, oid) == CHOOSE d \in coll : d.image = image /\ d.oid = oid

ReplaceOneKeepTitle(coll, target, doc) ==
    IF ~target.has THEN coll \cup {Stored(doc, FreshOid(coll, doc.image))}
    ELSE LET old == At(coll, doc.image, target.oid)
         IN (coll \ {old}) \cup {Stored([doc EXCEPT !.title = old.title], target.oid)}

ReplaceOneDropsOthers(coll, target, doc) == {Stored(doc, 1)}

\* The write part of models_collection.replace_one({"image": image}, doc,
\* upsert=True): the matched document is replaced and keeps its _id; with
\* no match the document is inserted.  The collection has no unique index
\* on "image", so an upsert that matched nothing inserts even when another
\* request has inserted a document of the image since.
ReplaceOne(coll, target, doc) ==
    IF ~target.has THEN coll \cup {Stored(doc, FreshOid(coll, doc.image))}
    ELSE (coll \ {At(coll, doc.image, target.oid)}) \cup {Stored(doc, target.oid)}

\* ---- container runtime ---------------------------------------------
\* client.images.pull succeeds exactly for published images
PullOk(image) == image \in Published

\* client.containers.run can start the image (it pulls a missing one)
CanRun(image, loc_images) == image \in loc_images \cup Published

AfterRun(image, loc_images) ==
    IF image \in loc_images \/ image \notin Published THEN loc_images
    ELSE loc_images \cup {image}

ImagesGetOkOnlyPulled(image, loc_images) ==
    image \in loc_images /\ image \in Published
\* client.images.get(image) succeeds
ImagesGetOk(image, loc_images) == image \in loc_images

\* The process right after import: nothing registered, nothing on the
\* volume, startup_event about to run, files being the descriptor lists
\* that may be found under BUILTIN_MODELS_PATH.
InitWith(files) ==
    /\ registry = {}
    /\ volume = {}
    /\ local = LocalAtStart
    /\ nextSid = 1
    /\ phase = "startup"
    /\ builtins \in files
    /\ pc = [p \in AllProcs |-> IF p = Boot THEN "wait_mongo" ELSE "idle"]
    /\ loc = [p \in AllProcs |-> IF p = Boot THEN [Loc0 EXCEPT !.kind = "bootstrap"] ELSE Loc0]
    /\ resp = [p \in AllProcs |-> NoResp]
    /\ log = [p \in AllProcs |-> <<>>]

Init == InitWith(SeqsUpTo(BuiltinDescriptors, MaxBuiltins))

Goto(p, label) == pc' = [pc EXCEPT ![p] = label]
Logged(p, ev) == log' = [log EXCEPT ![p] = Append(@, ev)]

(* ------------------------------------------------------------------ *)
(* Startup: wait_for_mongodb, load_builtin_models, startup_event       *)
(* ------------------------------------------------------------------ *)

\* One liveness probe of wait_for_mongodb.  startup_event calls it outside
\* its try block, so the exception of the last failed probe ends startup.
\* The loop counter is a local of wait_for_mongodb and is gone on return.
MayRetryForever(attempt) == TRUE
\* "if attempt < max_retries - 1": log, sleep and probe again
MayRetry(attempt) == attempt < max_retries - 1

ProbeExhaustedReturns == "load_builtin"
\* "else: raise": the last failed probe's exception leaves wait_for_mongodb
\* and, uncaught, startup_event
ProbeExhausted == "startup_raised"

\* mongo_ready records print("MongoDB is ready").
MongoProbe(p) ==
    /\ pc[p] = "wait_mongo"
    /\ \E ok \in BOOLEAN :
        IF ok
        THEN /\ Goto(p, "load_builtin")
             /\ Logged(p, "ping_ok")
             /\ loc' = [loc EXCEPT ![p].attempt = 0, ![p].sleeps = 0,
                                   ![p].mongo_ready = TRUE]
             /\ UNCHANGED phase
        ELSE IF MayRetry(loc[p].attempt)
        THEN /\ loc' = [loc EXCEPT ![p].attempt = @ + 1, ![p].sleeps = @ + 1]
             /\ UNCHANGED <<pc, log, phase>>
        ELSE /\ Goto(p, ProbeExhausted)
             /\ phase' = "failed"
             /\ loc' = [loc EXCEPT ![p].exc = Exc("StoreUnreachable", "none", NoneT)]
             /\ Logged(p, "ping_exhausted")
    /\ UNCHANGED <<registry, volume, local, nextSid, builtins, resp>>

\* load_builtin_models up to the loop: no directory or no descriptor
\* files means return at once.
LoadBuiltin(p) ==
    /\ pc[p] = "load_builtin"
    /\ IF builtins = <<>>
       THEN /\ Goto(p, "booted")
            /\ phase' = "serving"
            /\ UNCHANGED loc
       ELSE /\ Goto(p, "lb_iter")
            /\ loc' = [loc EXCEPT ![p].idx = 1, ![p].registered_count = 0,
                                  ![p].failed_count = 0]
            /\ UNCHANGED phase
    /\ UNCHANGED <<registry, volume, local, nextSid, builtins, resp, log>>

\* The locals of load_builtin_models that live across iterations.
LoopLocals(l) ==
    [Loc0 EXCEPT !.kind = l.kind, !.idx = l.idx,
                 !.registered_count = l.registered_count,
                 !.failed_count = l.failed_count,
                 !.outcomes = l.outcomes,
                 !.mongo_ready = l.mongo_ready]

AggregateRaisedNever(failed_count) == FALSE
\* "if failed_count > 0: raise Exception(...)"
AggregateRaised(failed_count) == failed_count > 0

\* Exception(f"Failed to register {failed_count} built-in models")
AggregateExc(failed_count) ==
    Exc("Failed to register built-in models", "none", SomeT(NumText(failed_count)))

\* Head of the for-loop: read the next descriptor, or leave the loop and
\* raise the aggregate error, which startup_event logs and swallows.  The
\* locals of the calls made for the previous descriptor are gone.
LbIter(p) ==
    /\ pc[p] = "lb_iter"
    /\ IF loc[p].idx > Len(builtins)
       THEN /\ Goto(p, "booted")
            /\ phase' = "serving"
            /\ loc' = [loc EXCEPT ![p] =
                         [LoopLocals(loc[p]) EXCEPT !.boot_exc =
                            IF AggregateRaised(loc[p].failed_count)
                            THEN AggregateExc(loc[p].failed_count)
                            ELSE NoExc]]
       ELSE /\ Goto(p, "ex_begin")
            /\ loc' = [loc EXCEPT ![p] =
                         [LoopLocals(loc[p]) EXCEPT !.req = builtins[loc[p].idx]]]
            /\ UNCHANGED phase
    /\ log' = [log EXCEPT ![p] = <<>>]
    /\ UNCHANGED <<registry, volume, local, nextSid, builtins, resp>>

(* ------------------------------------------------------------------ *)
(* _extract_container_metadata                                         *)
(* ------------------------------------------------------------------ *)

\* session_id = uuid.uuid4().hex and the two temp paths
ExBegin(p) ==
    /\ pc[p] = "ex_begin"
    /\ nextSid <= MaxSessions
    /\ nextSid' = nextSid + 1
    /\ loc' = [loc EXCEPT ![p].sid = nextSid]
    /\ Goto(p, "ex_readme")
    /\ Logged(p, "extract")
    /\ UNCHANGED <<registry, volume, local, phase, builtins, resp>>

\* f.read() of the copied readme, opened as text: a copy that is not UTF-8
\* raises UnicodeDecodeError, which is swallowed by the same handler as a
\* failed copy and leaves the key unset.
ReadmeFromFile(text) == IF DecodeOk(text) THEN SomeT(text) ELSE NoneT

\* cp /app/README.md in a container, then read the copy if it is there.
\* A missing image or a missing file makes containers.run raise; the
\* exception is logged and swallowed.
ExReadme(p) ==
    /\ pc[p] = "ex_readme"
    /\ \E shipped \in ImageReadmes :
        LET image == loc[p].req.image
            sid == loc[p].sid
            copied == CanRun(image, local) /\ shipped.has
            vol1 == IF copied THEN WriteFile(volume, "readme", sid, shipped.val)
                    ELSE volume
        IN /\ volume' = vol1
           /\ local' = AfterRun(image, local)
           /\ loc' = [loc EXCEPT ![p].cm_readme =
                        IF Exists(vol1, "readme", sid)
                        THEN ReadmeFromFile(ReadFile(vol1, "readme", sid))
                        ELSE NoneT]
    /\ Goto(p, "ex_examples")
    /\ Logged(p, "cp_readme")
    /\ UNCHANGED <<registry, nextSid, phase, builtins, resp>>

ExamplesFromFileAnyText(text) == SomeV(JsonLoads(text).v)
\* json.load of the copied examples file; a decode error is swallowed by
\* the same handler as a failed copy and leaves the key unset.
ExamplesFromFile(text) ==
    LET r == JsonLoads(text)
    IN IF DecodeOk(text) /\ r.ok THEN SomeV(r.v) ELSE NoneV

ExExamples(p) ==
    /\ pc[p] = "ex_examples"
    /\ \E shipped \in ImageExamples :
        LET image == loc[p].req.image
            sid == loc[p].sid
            copied == CanRun(image, local) /\ shipped.has
            vol1 == IF copied THEN WriteFile(volume, "examples", sid, shipped.val)
                    ELSE volume
        IN /\ volume' = vol1
           /\ local' = AfterRun(image, local)
           /\ loc' = [loc EXCEPT ![p].cm_examples =
                        IF Exists(vol1, "examples", sid)
                        THEN ExamplesFromFile(ReadFile(vol1, "examples", sid))
                        ELSE NoneV]
    /\ Goto(p, "ex_cleanup")
    /\ Logged(p, "cp_examples")
    /\ UNCHANGED <<registry, nextSid, phase, builtins, resp>>

\* return metadata, through the finally-block
ExCleanup(p) ==
    /\ pc[p] = "ex_cleanup"
    /\ volume' = CleanupExtract(volume, loc[p].sid)
    /\ Goto(p, "merge")
    /\ UNCHANGED <<registry, local, nextSid, phase, builtins, loc, resp, log>>

(* ------------------------------------------------------------------ *)
(* Merging caller fields with extracted ones, and validation           *)
(* ------------------------------------------------------------------ *)

\* dict.get: None for a missing key
GetV(cm) == IF cm.has THEN cm.val ELSE JNull

TruthyT(rd) == rd.has /\ rd.val # <<>>

\* register_model: req.x if req.x is not None else container_metadata.get(x)
ApiExamplesPreferImage(reqv, cm) == IF cm.has THEN cm.val ELSE reqv
ApiExamples(reqv, cm) == IF reqv # JNull THEN reqv ELSE GetV(cm)
ApiReadme(reqr, cm) == IF reqr.has THEN reqr ELSE cm

\* register_model: metadata[x] is None
ApiMissingExamplesNever(ex) == FALSE
ApiMissingExamples(ex) == ex = JNull
ApiMissingReadme(rd) == ~rd.has

\* load_builtin_models: base_metadata.get(x) or container_metadata.get(x)
BootExamples(basev, cm) == IF Truthy(basev) THEN basev ELSE GetV(cm)
BootReadme(baser, cm) == IF TruthyT(baser) THEN baser ELSE cm

\* load_builtin_models: not metadata[x]
BootMissingExamples(ex) == ~Truthy(ex)
BootMissingReadme(rd) == ~TruthyT(rd)

Response(status, detail, e, l) ==
    [status |-> status, detail |-> detail, exc |-> e,
     predictions |-> l.preds, stdout |-> l.stdout, stderr |-> l.stderr]

\* The failure answered as if the registration had succeeded.
RegisterFailedSwallowed(p, detail, e, l) ==
    IF l.kind = "register"
    THEN /\ Goto(p, "done")
         /\ resp' = [resp EXCEPT ![p] = Response(200, "ok", NoExc, l)]
         /\ loc' = [loc EXCEPT ![p] = [l EXCEPT !.exc = e]]
    ELSE /\ Goto(p, "lb_iter")
         /\ loc' = [loc EXCEPT ![p] =
                      [l EXCEPT !.exc = e, !.failed_count = @ + 1, !.idx = @ + 1,
                                !.outcomes = Append(@, "failed")]]
         /\ UNCHANGED resp

\* A registration that fails inside the handler: POST /models answers 400,
\* the bootstrap loop counts the failure and goes on.  l is the caller's
\* locals at that point.
RegisterFailed(p, detail, e, l) ==
    IF l.kind = "register"
    THEN /\ Goto(p, "done")
         /\ resp' = [resp EXCEPT ![p] = Response(400, detail, e, l)]
         /\ loc' = [loc EXCEPT ![p] = [l EXCEPT !.exc = e]]
    ELSE /\ Goto(p, "lb_iter")
         /\ loc' = [loc EXCEPT ![p] =
                      [l EXCEPT !.exc = e, !.failed_count = @ + 1, !.idx = @ + 1,
                                !.outcomes = Append(@, "failed")]]
         /\ UNCHANGED resp

Merge(p) ==
    /\ pc[p] = "merge"
    /\ LET l == loc[p]
           api == l.kind = "register"
           ex == IF api THEN ApiExamples(l.req.examples, l.cm_examples)
                 ELSE BootExamples(l.req.examples, l.cm_examples)
           rd == IF api THEN ApiReadme(l.req.readme, l.cm_readme)
                 ELSE BootReadme(l.req.readme, l.cm_readme)
           noEx == IF api THEN ApiMissingExamples(ex) ELSE BootMissingExamples(ex)
           noRd == IF api THEN ApiMissingReadme(rd) ELSE BootMissingReadme(rd)
           l1 == [l EXCEPT !.examples = ex, !.readme = rd,
                           !.cm_readme = NoneT, !.cm_examples = NoneV]
       IN IF noEx
          THEN RegisterFailed(p, "Examples are required", NoExc, l1)
          ELSE IF noRd
          THEN RegisterFailed(p, "README is required", NoExc, l1)
          ELSE /\ Goto(p, "images_get")
               /\ loc' = [loc EXCEPT ![p] = l1]
               /\ UNCHANGED resp
    /\ Logged(p, "merge")
    /\ UNCHANGED <<registry, volume, local, nextSid, phase, builtins>>

(* ------------------------------------------------------------------ *)
(* _register_model_internal                                            *)
(* ------------------------------------------------------------------ *)

ImagesGet(p) ==
    /\ pc[p] = "images_get"
    /\ IF ImagesGetOk(loc[p].req.image, local)
       THEN /\ Goto(p, "run_begin")
            /\ UNCHANGED <<loc, resp>>
       ELSE RegisterFailed(p, "Registration failed",
                           Exc("Image not found locally", "none", NoneT), loc[p])
    /\ Logged(p, "images_get")
    /\ UNCHANGED <<registry, volume, local, nextSid, phase, builtins>>

\* The statements after the dry run are reached only if it did not raise.
DryRunPassedAlways(e) == TRUE
DryRunPassed(e) == e = NoExc

\* replace_one reaches the store: its filter is matched against the
\* collection as it is at that moment.
UpsertFind(p) ==
    /\ pc[p] = "upsert_find"
    /\ \E t \in UpsertTargets(registry, loc[p].req.image) :
         loc' = [loc EXCEPT ![p].target = t]
    /\ Goto(p, "upsert")
    /\ UNCHANGED <<registry, volume, local, nextSid, phase, builtins, resp, log>>

\* replace_one writes and returns; the handler answers.
Upsert(p) ==
    /\ pc[p] = "upsert"
    /\ LET l == loc[p]
           doc == Doc(l.req.image, l.req.title, l.req.short_description,
                      l.req.authors, l.readme, l.examples)
           replaced == IF l.target.has
                       THEN {Fields(At(registry, l.req.image, l.target.oid))}
                       ELSE {}
       IN /\ registry' = ReplaceOne(registry, l.target, doc)
          /\ IF l.kind = "register"
             THEN /\ Goto(p, "done")
                  /\ resp' = [resp EXCEPT ![p] = Response(200, "ok", NoExc, l)]
                  /\ loc' = [loc EXCEPT ![p].replaced = replaced]
             ELSE /\ Goto(p, "lb_iter")
                  /\ loc' = [loc EXCEPT ![p].registered_count = @ + 1,
                                        ![p].idx = @ + 1,
                                        ![p].outcomes = Append(@, "ok"),
                                        ![p].replaced = replaced]
                  /\ UNCHANGED resp
    /\ Logged(p, "upsert")
    /\ UNCHANGED <<volume, local, nextSid, phase, builtins>>

(* ------------------------------------------------------------------ *)
(* _run_model_container                                                *)
(* ------------------------------------------------------------------ *)

NoOutput == <<"N", "o", " ", "o", "u", "t", "p", "u", "t">>

\* The handler "except Exception as e" at the end of _run_model_container:
\* it decodes container_result when that local has been assigned, which
\* raises again when the bytes are not UTF-8.
WrapExc(cause, cres) ==
    IF ~cres.has
    THEN Exc("Model execution failed", cause, SomeT(NoOutput))
    ELSE IF DecodeOk(cres.val)
    THEN Exc("Model execution failed", cause, SomeT(cres.val))
    ELSE Exc("UnicodeDecodeError", "none", NoneT)

\* The handler "except json.JSONDecodeError" of the outer try.
InvalidJsonExc == Exc("Model output file contains invalid JSON", "none", NoneT)

\* session token, paths, and the input file written with json.dump
RunBegin(p) ==
    /\ pc[p] = "run_begin"
    /\ nextSid <= MaxSessions
    /\ nextSid' = nextSid + 1
    /\ LET input_data == IF loc[p].kind = "predict" THEN loc[p].req.input
                         ELSE loc[p].examples
       IN /\ volume' = WriteFile(volume, "input", nextSid, JsonDumps(input_data))
          /\ loc' = [loc EXCEPT ![p].sid = nextSid, ![p].input_data = input_data,
                                ![p].cres = NoneT, ![p].new_pattern_used = FALSE,
                                ![p].new_file = NoneT, ![p].exc = NoExc,
                                ![p].last_out = NoneT,
                                ![p].preds = JNull, ![p].stdout = <<>>,
                                ![p].stderr = <<>>]
    /\ Goto(p, "run_new")
    /\ Logged(p, "write_input")
    /\ UNCHANGED <<registry, local, phase, builtins, resp>>

\* The inner try: the new pattern is used when containers.run returned and
\* the output file is there; anything else falls to the legacy run.
NewPatternUsedAlways(returned, exists) == TRUE
NewPatternUsed(returned, exists) == returned /\ exists

ContainerResultKeepsFirst(prev, returned, out) ==
    IF prev.has THEN prev ELSE IF returned THEN SomeT(out) ELSE prev
\* container_result = client.containers.run(...): assigned when the call
\* returns, left as it was when the call raises
ContainerResult(prev, returned, out) == IF returned THEN SomeT(out) ELSE prev

\* last_out records what the container started last has printed, when it
\* exited with status zero.
\* containers.run(detach=False) waits for the container to exit and is given
\* no timeout: with a container that never exits the call never returns.
ContainerBlocks(p, ev) ==
    /\ CanRun(loc[p].req.image, local)
    /\ local' = AfterRun(loc[p].req.image, local)
    /\ Goto(p, "run_blocked")
    /\ log' = [log EXCEPT ![p] = @ \o <<ev, "blocked">>]
    /\ UNCHANGED <<volume, loc>>

\* containers.run with ["./predict", input, output]
RunNew(p) ==
    /\ pc[p] = "run_new"
    /\ \/ \E o \in NewOutcomes :
           LET image == loc[p].req.image
               sid == loc[p].sid
               started == CanRun(image, local)
               returned == started /\ o.exit = 0
               vol1 == IF started /\ o.file.has
                       THEN WriteFile(volume, "output", sid, o.file.val)
                       ELSE volume
               used == NewPatternUsed(returned, Exists(vol1, "output", sid))
           IN /\ volume' = vol1
              /\ local' = AfterRun(image, local)
              /\ loc' = [loc EXCEPT ![p].cres = ContainerResult(@, returned, o.out),
                                    ![p].last_out = IF returned THEN SomeT(o.out) ELSE NoneT,
                                    ![p].new_pattern_used = used,
                                    ![p].new_file =
                                        IF Exists(vol1, "output", sid)
                                        THEN SomeT(ReadFile(vol1, "output", sid))
                                        ELSE NoneT]
              /\ Goto(p, IF used THEN "run_read" ELSE "run_legacy")
              /\ log' = [log EXCEPT ![p] =
                           IF returned THEN @ \o <<"run_new", "new_returned">>
                           ELSE @ \o <<"run_new", "new_raised">>]
       \/ ContainerBlocks(p, "run_new")
    /\ UNCHANGED <<registry, nextSid, phase, builtins, resp>>

\* json.loads(stdout_output.strip()) of the legacy run
LegacyDecode(out) == JsonLoads(Strip(out))

\* "Create output file for consistency": json.dump(predictions) to output_path
LegacyOutputFileSkipped(vol, sid, predictions) == vol
LegacyOutputFile(vol, sid, predictions) ==
    WriteFile(vol, "output", sid, JsonDumps(predictions))

\* containers.run with ["./predict", input], then the output decoded as
\* JSON and written to the output file.
RunLegacy(p) ==
    /\ pc[p] = "run_legacy"
    /\ \/ \E o \in LegacyOutcomes :
           LET image == loc[p].req.image
               sid == loc[p].sid
               returned == CanRun(image, local) /\ o.exit = 0
               cres1 == ContainerResult(loc[p].cres, returned, o.out)
               r == LegacyDecode(o.out)
           IN /\ local' = AfterRun(image, local)
              /\ IF ~returned
                 THEN /\ loc' = [loc EXCEPT ![p].exc = WrapExc("ContainerError", cres1),
                                            ![p].last_out = NoneT]
                      /\ Goto(p, "run_cleanup")
                      /\ UNCHANGED volume
                 ELSE IF ~DecodeOk(o.out)
                 THEN /\ loc' = [loc EXCEPT ![p].cres = cres1,
                                            ![p].last_out = SomeT(o.out),
                                            ![p].exc = WrapExc("UnicodeDecodeError", cres1)]
                      /\ Goto(p, "run_cleanup")
                      /\ UNCHANGED volume
                 ELSE IF ~r.ok
                 THEN /\ loc' = [loc EXCEPT ![p].cres = cres1,
                                            ![p].last_out = SomeT(o.out),
                                            ![p].exc = WrapExc("Legacy pattern failed - stdout is not valid JSON", cres1)]
                      /\ Goto(p, "run_cleanup")
                      /\ UNCHANGED volume
                 ELSE /\ loc' = [loc EXCEPT ![p].cres = cres1,
                                            ![p].last_out = SomeT(o.out)]
                      /\ volume' = LegacyOutputFile(volume, sid, r.v)
                      /\ Goto(p, "run_read")
              /\ log' = [log EXCEPT ![p] =
                           IF returned THEN @ \o <<"run_legacy", "legacy_returned">>
                           ELSE @ \o <<"run_legacy", "legacy_raised">>]
       \/ ContainerBlocks(p, "run_legacy")
    /\ UNCHANGED <<registry, nextSid, phase, builtins, resp>>

\* The output file is looked for and read only when the raw output
\* decodes: an undecodable output raises at the decode, before the file
\* is touched.
ReadLog(l, raw) == IF DecodeOk(raw) THEN l \o <<"read_output">> ELSE l

\* The decode and classification of the raw output, then json.load of the
\* output file.
RunRead(p) ==
    /\ pc[p] = "run_read"
    /\ LET l == loc[p]
           raw == l.cres.val
           c == Classify(raw)
       IN IF ~DecodeOk(raw)
          THEN loc' = [loc EXCEPT ![p].exc = WrapExc("UnicodeDecodeError", l.cres)]
          ELSE IF ~Exists(volume, "output", l.sid)
          THEN loc' = [loc EXCEPT ![p].exc = WrapExc("Model did not create output file", l.cres),
                                  ![p].stdout = c.stdout, ![p].stderr = c.stderr]
          ELSE LET r == JsonLoads(ReadFile(volume, "output", l.sid))
               IN IF r.ok
                  THEN loc' = [loc EXCEPT ![p].preds = r.v,
                                          ![p].stdout = c.stdout, ![p].stderr = c.stderr]
                  ELSE loc' = [loc EXCEPT ![p].exc = InvalidJsonExc,
                                          ![p].stdout = c.stdout, ![p].stderr = c.stderr]
    /\ Goto(p, "run_cleanup")
    /\ log' = [log EXCEPT ![p] = ReadLog(@, loc[p].cres.val)]
    /\ UNCHANGED <<registry, volume, local, nextSid, phase, builtins, resp>>

\* The finally-block, then the return or raise into the caller: predict
\* answers 200 or 500, _register_model_internal goes on to the upsert or
\* re-raises.
RunCleanup(p) ==
    /\ pc[p] = "run_cleanup"
    /\ volume' = CleanupRun(volume, loc[p].sid)
    /\ LET l == loc[p]
       IN IF l.kind = "predict"
          THEN /\ Goto(p, "done")
               /\ resp' = [resp EXCEPT ![p] =
                             IF l.exc = NoExc THEN Response(200, "ok", NoExc, l)
                             ELSE Response(500, "Prediction failed", l.exc, l)]
               /\ UNCHANGED loc
          ELSE IF DryRunPassed(l.exc)
          THEN /\ Goto(p, "upsert_find")
               /\ UNCHANGED <<loc, resp>>
          ELSE RegisterFailed(p, "Registration failed", l.exc, l)
    /\ Logged(p, "cleanup")
    /\ UNCHANGED <<registry, local, nextSid, phase, builtins>>

(* ------------------------------------------------------------------ *)
(* HTTP handlers                                                       *)
(* ------------------------------------------------------------------ *)

\* POST /models arrives.
StartRegister(p, r) ==
    /\ phase = "serving"
    /\ pc[p] = "idle"
    /\ loc' = [loc EXCEPT ![p] = [Loc0 EXCEPT !.kind = "register", !.req = r]]
    /\ Goto(p, "pull")
    /\ UNCHANGED <<registry, volume, local, nextSid, phase, builtins, resp, log>>

\* client.images.pull; a failure is ignored.
Pull(p) ==
    /\ pc[p] = "pull"
    /\ local' = IF PullOk(loc[p].req.image) THEN local \cup {loc[p].req.image}
                ELSE local
    /\ Goto(p, "ex_begin")
    /\ Logged(p, "pull")
    /\ UNCHANGED <<registry, volume, nextSid, phase, builtins, loc, resp>>

\* find_one(...) is truthy
IsRegisteredAlways(coll, image) == TRUE
IsRegistered(coll, image) == Found(coll, image)

\* POST /predict arrives: the registry lookup.
StartPredict(p, r) ==
    /\ phase = "serving"
    /\ pc[p] = "idle"
    /\ LET l == [Loc0 EXCEPT !.kind = "predict", !.req = r]
       IN /\ loc' = [loc EXCEPT ![p] = l]
          /\ IF IsRegistered(registry, r.image)
             THEN /\ Goto(p, "run_begin")
                  /\ UNCHANGED resp
             ELSE /\ Goto(p, "done")
                  /\ resp' = [resp EXCEPT ![p] =
                                Response(404, "Model not registered", NoExc, l)]
    /\ log' = [log EXCEPT ![p] = <<"find_one">>]
    /\ UNCHANGED <<registry, volume, local, nextSid, phase, builtins>>

\* The response leaves the handler; the worker takes the next request.
Deliver(p) ==
    /\ pc[p] = "done"
    /\ Goto(p, "idle")
    /\ loc' = [loc EXCEPT ![p] = Loc0]
    /\ resp' = [resp EXCEPT ![p] = NoResp]
    /\ log' = [log EXCEPT ![p] = <<>>]
    /\ UNCHANGED <<registry, volume, local, nextSid, phase, builtins>>

Step(p) ==
    \/ ExBegin(p)
    \/ ExReadme(p)
    \/ ExExamples(p)
    \/ ExCleanup(p)
    \/ Merge(p)
    \/ ImagesGet(p)
    \/ RunBegin(p)
    \/ RunNew(p)
    \/ RunLegacy(p)
    \/ RunRead(p)
    \/ RunCleanup(p)
    \/ UpsertFind(p)
    \/ Upsert(p)

Next ==
    \/ MongoProbe(Boot)
    \/ LoadBuiltin(Boot)
    \/ LbIter(Boot)
    \/ \E p \in Procs : Step(p)
    \/ \E p \in Workers : \E r \in RegisterRequests : StartRegister(p, r)
    \/ \E p \in Workers : Pull(p)
    \/ \E p \in Workers : \E r \in PredictRequests : StartPredict(p, r)
    \/ \E p \in Workers : Deliver(p)

Spec == Init /\ [][Next]_vars

(* ------------------------------------------------------------------ *)
(* Startup alone: startup_event runs to its end before the server      *)
(* accepts a request, as one thread that keeps running.                *)
(* ------------------------------------------------------------------ *)

StartupInit == InitWith(SeqsUpTo(BuiltinDescriptors, MaxStartupBuiltins))

StartupNext ==
    \/ MongoProbe(Boot)
    \/ LoadBuiltin(Boot)
    \/ LbIter(Boot)
    \/ Step(Boot)

StartupSpec == StartupInit /\ [][StartupNext]_vars /\ WF_vars(StartupNext)

(* ------------------------------------------------------------------ *)
(* Two requests served at once by the thread pool, no built-in models. *)
(* ------------------------------------------------------------------ *)

\* Registrations of one image that differ in every field of the document.
ConcRegisterRequests ==
    { r \in RegisterRequests :
        /\ r.image = "m1"
        /\ \/ r.title = "t1" /\ r.examples = Ex1 /\ r.readme = SomeT(<<"a">>)
           \/ r.title = "t2" /\ r.examples = JNull /\ r.readme = NoneT }

ConcPredictRequests == { r \in PredictRequests : r.image = "m1" }

ConcInit == InitWith({<<>>})

ConcNext ==
    \/ MongoProbe(Boot)
    \/ LoadBuiltin(Boot)
    \/ \E p \in ConcWorkers : Step(p)
    \/ \E p \in ConcWorkers : \E r \in ConcRegisterRequests : StartRegister(p, r)
    \/ \E p \in ConcWorkers : Pull(p)
    \/ \E p \in ConcWorkers : \E r \in ConcPredictRequests : StartPredict(p, r)
    \/ \E p \in ConcWorkers : Deliver(p)

ConcSpec == ConcInit /\ [][ConcNext]_vars

(* ------------------------------------------------------------------ *)
(* The output classification alone: a prediction whose container has   *)
(* printed any of a family of texts and is about to have them split.   *)
(* ------------------------------------------------------------------ *)

\* Longest output, in lines, that the container prints.
MaxLines == 4

\* Lines a container may print: blank ones, result lines, lines with
\* and without surrounding whitespace, with and without a marker, and
\* one that is not UTF-8.
LineTexts ==
    { <<>>, <<" ">>, <<"[", "3", "]">>, <<" ", "o", "k">>, <<"L", "o", "a", "d", "i", "n", "g">>, <<"C", "o", "m", "p", "l", "e", "t", "e", "d">>, <<"3", " ", "r", "e", "c", "o", "r", "d", "s", "\r">>, <<BadByte>> }

RawOutputs == { JoinLines(ls) : ls \in SeqsUpTo(LineTexts, MaxLines) }

\* POST /predict for the registered image m1, at the point where the
\* two-argument container has returned, having printed raw and written
\* its output file.
ClassifyInit ==
    \E raw \in RawOutputs :
        LET r == [NoReq EXCEPT !.image = "m1", !.input = Ex1]
            w == CHOOSE p \in Workers : TRUE
        IN /\ registry = {Stored(Doc("m1", "t1", "d1", "a1", SomeT(<<"a">>), Ex1), 1)}
           /\ volume = {File("input", 1, JsonDumps(Ex1)),
                        File("output", 1, <<"[", "4", "]">>)}
           /\ local = LocalAtStart
           /\ nextSid = 2
           /\ phase = "serving"
           /\ builtins = <<>>
           /\ pc = [p \in AllProcs |->
                      IF p = Boot THEN "booted"
                      ELSE IF p = w THEN "run_read" ELSE "idle"]
           /\ loc = [p \in AllProcs |->
                      IF p = Boot
                      THEN [Loc0 EXCEPT !.kind = "bootstrap", !.mongo_ready = TRUE]
                      ELSE IF p = w
                      THEN [Loc0 EXCEPT !.kind = "predict", !.req = r, !.sid = 1,
                                        !.input_data = Ex1, !.cres = SomeT(raw),
                                        !.last_out = SomeT(raw),
                                        !.new_pattern_used = TRUE,
                                        !.new_file = SomeT(<<"[", "4", "]">>)]
                      ELSE Loc0]
           /\ resp = [p \in AllProcs |-> NoResp]
           /\ log = [p \in AllProcs |->
                      IF p = w
                      THEN <<"find_one", "write_input", "run_new", "new_returned">>
                      ELSE <<>>]

ClassifyNext ==
    \/ \E p \in Workers : RunRead(p)
    \/ \E p \in Workers : RunCleanup(p)
    \/ \E p \in Workers : Deliver(p)

ClassifySpec == ClassifyInit /\ [][ClassifyNext]_vars

(* ------------------------------------------------------------------ *)
(* The read-only handlers: GET /health, GET /models, GET /models/{tag} *)
(* ------------------------------------------------------------------ *)

ReadResponse(status, detail, body) ==
    [status |-> status, detail |-> detail, exc |-> NoExc,
     predictions |-> JNull, stdout |-> <<>>, stderr |-> <<>>, body |-> body]

StoreAfterReadEmptied(coll) == {}
\* The collection after ping, count_documents, find or find_one
StoreAfterRead(coll) == coll

\* The fields list_models copies from a stored document: all but readme.
ListedFields(d) ==
    [image |-> d.image, title |-> d.title,
     short_description |-> d.short_description, authors |-> d.authors,
     examples |-> d.examples]

\* GET /health: ping, then count_documents, inside a try that turns the
\* exception of either into the "unhealthy" answer, which carries the
\* message of the exception.  A ping that raises ends the try: the
\* documents are not counted.
HealthCheck(p) ==
    /\ phase = "serving"
    /\ pc[p] = "idle"
    /\ \E ping_ok, count_ok \in BOOLEAN :
         /\ (~ping_ok => count_ok)
         /\ resp' = [resp EXCEPT ![p] =
                      IF ping_ok /\ count_ok
                      THEN ReadResponse(200, "healthy",
                                        [models_registered |-> Cardinality(registry),
                                         mongodb_connected |-> TRUE])
                      ELSE ReadResponse(200, "unhealthy",
                                        [error |-> IF ping_ok THEN "count_documents"
                                                   ELSE "ping",
                                         mongodb_connected |-> FALSE])]
         /\ log' = [log EXCEPT ![p] =
                     IF ping_ok THEN <<"ping", "count_documents">> ELSE <<"ping">>]
    /\ registry' = StoreAfterRead(registry)
    /\ loc' = [loc EXCEPT ![p] = [Loc0 EXCEPT !.kind = "health"]]
    /\ Goto(p, "done")
    /\ UNCHANGED <<volume, local, nextSid, phase, builtins>>

\* The answer of list_models: one entry for each stored document, as a bag
\* (the order of the entries is the store's and is left open).
ListedBag(coll) ==
    [x \in { ListedFields(d) : d \in coll } |->
        Cardinality({ d \in coll : ListedFields(d) = x })]

\* GET /models: every stored document without its readme.
ListModels(p) ==
    /\ phase = "serving"
    /\ pc[p] = "idle"
    /\ resp' = [resp EXCEPT ![p] = ReadResponse(200, "ok", ListedBag(registry))]
    /\ registry' = StoreAfterRead(registry)
    /\ loc' = [loc EXCEPT ![p] = [Loc0 EXCEPT !.kind = "list"]]
    /\ Goto(p, "done")
    /\ log' = [log EXCEPT ![p] = <<"find">>]
    /\ UNCHANGED <<volume, local, nextSid, phase, builtins>>

\* GET /models/{image_tag}: the fields of a stored document, or 404.
ModelInfo(p, image_tag) ==
    /\ phase = "serving"
    /\ pc[p] = "idle"
    /\ IF Found(registry, image_tag)
       THEN \E m \in FindOne(registry, image_tag) :
                resp' = [resp EXCEPT ![p] = ReadResponse(200, "ok", Fields(m))]
       ELSE resp' = [resp EXCEPT ![p] = ReadResponse(404, "Model not found", JNull)]
    /\ registry' = StoreAfterRead(registry)
    /\ loc' = [loc EXCEPT ![p] =
                 [Loc0 EXCEPT !.kind = "info", !.req = [NoReq EXCEPT !.image = image_tag]]]
    /\ Goto(p, "done")
    /\ log' = [log EXCEPT ![p] = <<"find_one">>]
    /\ UNCHANGED <<volume, local, nextSid, phase, builtins>>

\* The whole service with one worker: startup with its built-in models,
\* then every endpoint, registrations being those of one image.
ReadInit == InitWith(SeqsUpTo(BuiltinDescriptors, MaxBuiltins))

ReadNext ==
    \/ MongoProbe(Boot)
    \/ LoadBuiltin(Boot)
    \/ LbIter(Boot)
    \/ \E p \in Procs : Step(p)
    \/ \E p \in Workers : \E r \in ConcRegisterRequests : StartRegister(p, r)
    \/ \E p \in Workers : Pull(p)
    \/ \E p \in Workers : \E r \in PredictRequests : StartPredict(p, r)
    \/ \E p \in Workers : HealthCheck(p)
    \/ \E p \in Workers : ListModels(p)
    \/ \E p \in Workers : \E im \in Images : ModelInfo(p, im)
    \/ \E p \in Workers : Deliver(p)

ReadSpec == ReadInit /\ [][ReadNext]_vars

(* ------------------------------------------------------------------ *)
(* Properties                                                          *)
(* ------------------------------------------------------------------ *)

InLog(p, ev) == \E k \in 1..Len(log[p]) : log[p][k] = ev

RunPcs == {"run_new", "run_legacy", "run_read", "run_cleanup", "run_blocked"}

\* The documents of a collection without their _id
Records(coll) == { Fields(d) : d \in coll }

DocOf(l) ==
    Doc(l.req.image, l.req.title, l.req.short_description, l.req.authors,
        l.readme, l.examples)

\* The handler of p has just performed its upsert.
JustRegistered(p) ==
    /\ pc[p] \in {"done", "lb_iter"}
    /\ log[p] # <<>>
    /\ log[p][Len(log[p])] = "upsert"

\* C1: every input_<token>.json / output_<token>.json on the shared volume
\* belongs to an invocation of _run_model_container that is still running;
\* once the call has returned or raised, neither file of its session exists.
C1_CleanupInvariant ==
    \A f \in volume :
        f.kind \in {"input", "output"} =>
            \E p \in Procs : pc[p] \in RunPcs /\ loc[p].sid = f.sid

\* A prediction whose output file was malformed JSON has raised and its
\* cleanup has run.
C1_Witness ==
    \E p \in Procs :
        /\ pc[p] = "done"
        /\ loc[p].kind = "predict"
        /\ loc[p].exc = InvalidJsonExc
        /\ loc[p].new_file.has
        /\ InLog(p, "cleanup")

\* C2: a predict request for an image without a registry record is answered
\* 404 "Model not registered" straight after the lookup: nothing but the
\* lookup has happened, so no container was started and no file written.
\* (Records are never removed, so an image unregistered now was unregistered
\* at the lookup.)
C2_PredictRequiresRegistration ==
    \A p \in Procs :
        (loc[p].kind = "predict" /\ ~Found(registry, loc[p].req.image)) =>
            /\ pc[p] = "done"
            /\ resp[p].status = 404
            /\ resp[p].detail = "Model not registered"
            /\ log[p] = <<"find_one">>

C2_Witness ==
    \E p \in Procs :
        /\ loc[p].kind = "predict"
        /\ pc[p] = "done"
        /\ resp[p].status = 404
        /\ ~Found(registry, loc[p].req.image)
        /\ volume = {}

\* The log of p ends with a container run whose output was read and whose
\* cleanup is done.
DryRunReturned(p) ==
    /\ Len(log[p]) >= 4
    /\ log[p][Len(log[p])] = "cleanup"
    /\ log[p][Len(log[p]) - 1] = "read_output"
    /\ InLog(p, "write_input")
    /\ InLog(p, "run_new")

\* C3: every document that appears in the registry is written by a
\* registration (API or bootstrap) whose dry run, fed that document's own
\* examples, has already returned without raising.
C3_DryRunPrecedesPersistence ==
    [][ \A d \in registry' \ registry :
          \E p \in Procs :
              /\ pc[p] = "upsert"
              /\ loc[p].exc = NoExc
              /\ loc[p].req.image = d.image
              /\ loc[p].input_data = d.examples
              /\ DryRunReturned(p) ]_vars

C3_Witness ==
    \E p \in Procs :
        /\ JustRegistered(p)
        /\ loc[p].kind = "register"
        /\ resp[p].status = 200
        /\ DocOf(loc[p]) \in Records(registry)

NonEmptyV(v) == v # JNull /\ (v.t = "arr" => Len(v.a) > 0)

\* C4: every stored document has non-empty examples and a non-empty readme.
C4_NonEmptyAtPersistence ==
    \A d \in registry : NonEmptyV(d.examples) /\ TruthyT(d.readme)

\* C5: once a registration of an image has succeeded the registry holds
\* exactly one document for that image, and each of its fields is the value
\* of this registration, whatever was stored before.
C5_FullReplace ==
    \A p \in Procs :
        JustRegistered(p) =>
            /\ Cardinality(Matching(registry, loc[p].req.image)) = 1
            /\ Records(Matching(registry, loc[p].req.image)) = {DocOf(loc[p])}

\* A second registration has replaced a document that differed from it in
\* every field but the image.
C5_Witness ==
    \E p \in Procs :
        /\ JustRegistered(p)
        /\ \E old \in loc[p].replaced :
            /\ old.title # loc[p].req.title
            /\ old.short_description # loc[p].req.short_description
            /\ old.authors # loc[p].req.authors
            /\ old.readme # loc[p].readme
            /\ old.examples # loc[p].examples

NeitherExamples(l) ==
    l.req.examples = JNull /\ (~l.cm_examples.has \/ l.cm_examples.val = JNull)

NeitherReadme(l) == ~l.req.readme.has /\ ~l.cm_readme.has

\* C6: when POST /models reaches validation with examples (or readme) given
\* neither by the caller nor by the extraction, the request ends there with
\* HTTP 400, the registry is not written and no dry-run container has been
\* started.
C6_RequiredFields ==
    [][ \A p \in Procs :
          ( /\ pc[p] = "merge"
            /\ pc'[p] # "merge"
            /\ loc[p].kind = "register"
            /\ NeitherExamples(loc[p]) \/ NeitherReadme(loc[p]) ) =>
          ( /\ pc'[p] = "done"
            /\ resp'[p].status = 400
            /\ resp'[p].detail \in {"Examples are required", "README is required"}
            /\ registry' = registry
            /\ volume' = volume
            /\ \A k \in 1..Len(log'[p]) :
                 log'[p][k] \notin {"write_input", "run_new", "run_legacy", "upsert"} ) ]_vars

C6_Witness ==
    \E p \in Procs :
        /\ pc[p] = "done"
        /\ loc[p].kind = "register"
        /\ loc[p].req.examples = JNull
        /\ resp[p].status = 400
        /\ resp[p].detail = "Examples are required"
        /\ InLog(p, "cp_examples")

\* C7, at validation: a field the caller gave is the merged value, and an
\* omitted field takes the extracted value; with both fields resolved the
\* request goes on to the image check and the dry run.
C7_MergeStep ==
    \A p \in Procs :
        ( pc[p] = "merge" /\ pc'[p] # "merge" /\ loc[p].kind = "register" ) =>
        LET l == loc[p]
            ex == IF l.req.examples # JNull THEN l.req.examples
                  ELSE IF l.cm_examples.has THEN l.cm_examples.val ELSE JNull
            rd == IF l.req.readme.has THEN l.req.readme ELSE l.cm_readme
        IN /\ loc'[p].examples = ex
           /\ loc'[p].readme = rd
           /\ (ex # JNull /\ rd.has) => pc'[p] = "images_get"

\* C7, afterwards: what the dry run is fed and what is persisted are the
\* merged values, hence the caller's for every field the caller gave.
C7_UsedAndPersisted ==
    \A p \in Procs :
        loc[p].kind = "register" =>
            /\ (pc[p] \in RunPcs \cup {"upsert_find", "upsert"} \/ JustRegistered(p)) =>
                 /\ loc[p].input_data = loc[p].examples
                 /\ loc[p].req.examples # JNull => loc[p].examples = loc[p].req.examples
                 /\ loc[p].req.readme.has => loc[p].readme = loc[p].req.readme
            /\ JustRegistered(p) =>
                 \E d \in registry :
                     /\ d.image = loc[p].req.image
                     /\ d.examples = loc[p].examples
                     /\ d.readme = loc[p].readme

\* C7: in POST /models a field supplied by the caller is the value used for
\* the dry run and persisted, the extracted value is used only for an
\* omitted field, and a request without examples registers with the
\* examples extracted from the image.
C7_ExtractionFillsGaps == []C7_UsedAndPersisted /\ [][C7_MergeStep]_vars

\* A request without examples and with a readme of its own has registered
\* with the examples shipped in the image.
C7_Witness ==
    \E p \in Procs :
        /\ JustRegistered(p)
        /\ loc[p].kind = "register"
        /\ loc[p].req.examples = JNull
        /\ loc[p].req.readme = SomeT(<<"a">>)
        /\ \E d \in registry :
            /\ d.image = loc[p].req.image
            /\ d.examples = Ex2
            /\ d.readme = SomeT(<<"a">>)

\* C8: when the two-argument run left no output file and the single-argument
\* run returned a valid JSON document, _run_model_container returns the
\* decoded document as predictions.
C8_LegacyFallback ==
    \A p \in Procs :
        ( /\ InLog(p, "legacy_returned")
          /\ ~loc[p].new_file.has
          /\ pc[p] # "run_read"
          /\ JsonLoads(loc[p].cres.val).ok ) =>
        ( /\ loc[p].exc = NoExc
          /\ loc[p].preds = JsonLoads(loc[p].cres.val).v
          /\ (pc[p] = "done" /\ loc[p].kind = "predict") =>
                (resp[p].status = 200 /\ resp[p].predictions = loc[p].preds) )

\* A prediction served by the legacy run after the two-argument run exited
\* with an error.
C8_Witness ==
    \E p \in Procs :
        /\ pc[p] = "done"
        /\ loc[p].kind = "predict"
        /\ InLog(p, "new_raised")
        /\ InLog(p, "legacy_returned")
        /\ ~loc[p].new_file.has
        /\ resp[p].status = 200
        /\ resp[p].predictions = JArr(<<JNum(3)>>)

\* The invocation of p is past reading its output.
RunFinished(p) == pc[p] \notin {"run_new", "run_legacy", "run_read", "run_blocked"}

\* C9 as claimed: whenever the two-argument run leaves an output file
\* (holding valid JSON), however the container ended, the legacy container
\* is never started and the decoded file is returned.
C9_AnyExit ==
    \A p \in Procs :
        (loc[p].new_file.has /\ JsonLoads(loc[p].new_file.val).ok) =>
            /\ ~InLog(p, "run_legacy")
            /\ RunFinished(p) =>
                 /\ loc[p].exc = NoExc
                 /\ loc[p].preds = JsonLoads(loc[p].new_file.val).v

\* C10: a POST /models request for an image that can neither be pulled nor
\* found locally ends with a client error that reports the missing image,
\* and never writes the registry.
C10_UnavailableImageReported ==
    \A p \in Procs :
        ( /\ loc[p].kind = "register"
          /\ pc[p] = "done"
          /\ ~PullOk(loc[p].req.image)
          /\ loc[p].req.image \notin local ) =>
        ( /\ resp[p].status \in 400..499
          /\ resp[p].exc.tag = "Image not found locally"
          /\ ~InLog(p, "upsert") )

\* C11, the failure: a registration ends with "Image not found locally"
\* only for an image that could not be pulled and is not in the local store.
C11_UnavailableOnlyIfBothFail ==
    \A p \in Procs :
        loc[p].exc.tag = "Image not found locally" =>
            /\ ~PullOk(loc[p].req.image)
            /\ loc[p].req.image \notin local

\* C11, the fallback: when the pull of POST /models failed and the image is
\* in the local store, the local lookup sends the registration on to the
\* dry run.
C11_LocalImageProceeds ==
    \A p \in Procs :
        ( /\ pc[p] = "images_get"
          /\ pc'[p] # "images_get"
          /\ loc[p].kind = "register"
          /\ InLog(p, "pull")
          /\ ~PullOk(loc[p].req.image)
          /\ loc[p].req.image \in local ) =>
        ( pc'[p] = "run_begin" /\ resp'[p] = resp[p] )

\* C11: registration fails for image unavailability only when both the pull
\* and the local lookup fail; with a failed pull and a local image it goes
\* on to the dry run.
C11_ImageResolutionFallback ==
    []C11_UnavailableOnlyIfBothFail /\ [][C11_LocalImageProceeds]_vars

\* POST /models for the unpublished local image m1 has started its dry run.
C11_Witness ==
    \E p \in Procs :
        /\ loc[p].kind = "register"
        /\ loc[p].req.image = "m1"
        /\ ~PullOk("m1")
        /\ InLog(p, "pull")
        /\ InLog(p, "images_get")
        /\ InLog(p, "write_input")

\* C12: every invocation of _run_model_container that has started its
\* container eventually returns or raises (a container that does not exit
\* is terminated when the timeout expires) and its session files are gone.
C12_RunEventuallyEnds ==
    \A p \in Procs :
        (pc[p] = "run_new") ~>
            ( /\ pc[p] \notin RunPcs
              /\ ~Exists(volume, "input", loc[p].sid)
              /\ ~Exists(volume, "output", loc[p].sid) )

\* C13: no bootstrap failure makes startup_event raise: neither the backing
\* store staying silent for the whole retry budget nor a built-in model that
\* fails to register keeps the process from serving requests.
C13_BootstrapNeverBlocksServing ==
    /\ pc[Boot] # "startup_raised"
    /\ phase # "failed"
    /\ (loc[Boot].boot_exc # NoExc \/ loc[Boot].exc.tag = "StoreUnreachable") =>
           phase = "serving"

CountOf(seq, x) == Cardinality({ i \in 1..Len(seq) : seq[i] = x })

\* Positions of startup_event inside the loop body of load_builtin_models.
InIteration(p) ==
    pc[p] \notin {"wait_mongo", "load_builtin", "lb_iter", "booted", "startup_raised"}

\* C14 while the loop runs: the descriptors before idx have been processed
\* once each, in order, whatever their outcome; the counters count them; a
\* descriptor that registered has its image in the registry.
C14_LoopProgress ==
    LET l == loc[Boot]
    IN /\ Len(l.outcomes) <= Len(builtins)
       /\ l.registered_count = CountOf(l.outcomes, "ok")
       /\ l.failed_count = CountOf(l.outcomes, "failed")
       /\ pc[Boot] = "lb_iter" => l.idx = Len(l.outcomes) + 1
       /\ InIteration(Boot) =>
            /\ l.idx = Len(l.outcomes) + 1
            /\ l.idx <= Len(builtins)
            /\ l.req = builtins[l.idx]
       /\ \A i \in 1..Len(l.outcomes) :
            l.outcomes[i] = "ok" => Found(registry, builtins[i].image)
       /\ \A d \in registry :
            \E i \in 1..Len(l.outcomes) :
                l.outcomes[i] = "ok" /\ builtins[i].image = d.image

\* C14 when load_builtin_models finishes: every descriptor has been counted
\* and the aggregate error, which carries the failure count, is raised
\* exactly when some descriptor failed.
C14_AtLoopExit ==
    LET l == loc[Boot]
    IN (pc[Boot] = "booted" /\ builtins # <<>>) =>
         /\ Len(l.outcomes) = Len(builtins)
         /\ l.registered_count + l.failed_count = Len(builtins)
         /\ (l.boot_exc # NoExc) <=> (l.failed_count > 0)
         /\ l.failed_count > 0 =>
              /\ l.boot_exc.tag = "Failed to register built-in models"
              /\ l.boot_exc.info = SomeT(NumText(l.failed_count))

\* C14: load_builtin_models processes every descriptor once regardless of
\* earlier failures; at its end registered_count + failed_count is the number
\* of descriptors, every model that succeeded is registered, and the
\* aggregate error with the failure count is raised iff failed_count > 0.
C14_BootstrapAggregation == C14_LoopProgress /\ C14_AtLoopExit

\* Two descriptors: the first failed, the second registered all the same,
\* and the aggregate error reports one failure.
C14_Witness ==
    /\ pc[Boot] = "booted"
    /\ Len(builtins) = 2
    /\ loc[Boot].outcomes = <<"failed", "ok">>
    /\ loc[Boot].registered_count = 1
    /\ loc[Boot].failed_count = 1
    /\ loc[Boot].boot_exc.info = SomeT(<<"1">>)
    /\ Found(registry, builtins[2].image)

\* C15, in every state: the probe about to be issued is at most the 30th,
\* one delay lies behind each failed probe that was followed by another, and
\* the raise happens after exactly max_retries failed probes and
\* max_retries - 1 delays.
C15_ProbeBudget ==
    LET l == loc[Boot]
    IN /\ pc[Boot] = "wait_mongo" =>
            /\ l.attempt <= max_retries - 1
            /\ l.sleeps = l.attempt
       /\ pc[Boot] = "startup_raised" =>
            /\ l.attempt = max_retries - 1
            /\ l.sleeps = max_retries - 1
            /\ ~InLog(Boot, "ping_ok")
            /\ l.exc.tag = "StoreUnreachable"

\* C15, each probe: a probe that succeeds returns at once without a delay; a
\* probe that fails is followed by one delay and another probe unless it was
\* the 30th, which raises without a delay.
C15_ProbeStep ==
    pc[Boot] = "wait_mongo" =>
        \/ /\ pc'[Boot] = "load_builtin"
           /\ log'[Boot] = Append(log[Boot], "ping_ok")
           /\ phase' = phase
        \/ /\ pc'[Boot] = "wait_mongo"
           /\ loc[Boot].attempt < max_retries - 1
           /\ loc'[Boot].attempt = loc[Boot].attempt + 1
           /\ loc'[Boot].sleeps = loc[Boot].sleeps + 1
        \/ /\ pc'[Boot] = "startup_raised"
           /\ loc[Boot].attempt = max_retries - 1
           /\ loc'[Boot].sleeps = loc[Boot].sleeps

\* C15: wait_for_mongodb terminates; it issues at most 30 probes, returns
\* as soon as one succeeds, raises exactly when all 30 fail, and sleeps only
\* between two consecutive probes.
C15_BoundedStorePolling ==
    /\ []C15_ProbeBudget
    /\ [][C15_ProbeStep]_vars
    /\ (pc[Boot] = "wait_mongo") ~> (pc[Boot] \in {"load_builtin", "startup_raised"})

\* All 30 probes failed: 29 delays, then the raise.
C15_Witness ==
    /\ pc[Boot] = "startup_raised"
    /\ loc[Boot].attempt = 29
    /\ loc[Boot].sleeps = 29
    /\ InLog(Boot, "ping_exhausted")

LastEvent(p) == IF log[p] = <<>> THEN "none" ELSE log[p][Len(log[p])]

\* Messages of the exceptions a dry run can raise.
DryRunFailures ==
    {"Model execution failed", "Model output file contains invalid JSON",
     "UnicodeDecodeError"}

\* C16: a POST /models request that has ended did either register (200,
\* after the upsert) or fail with HTTP 400 whose body names the failure: the
\* missing field, the image not found, or the exception of the dry run.  No
\* failure ends in a success response.
C16_RegistrationErrorPropagation ==
    \A p \in Procs :
        (loc[p].kind = "register" /\ pc[p] = "done") =>
            /\ resp[p].status \in {200, 400}
            /\ resp[p].status = 200 <=> JustRegistered(p)
            /\ resp[p].status = 200 => (loc[p].exc = NoExc /\ resp[p].detail = "ok")
            /\ resp[p].status = 400 =>
                 /\ ~InLog(p, "upsert")
                 /\ resp[p].exc = loc[p].exc
                 /\ LastEvent(p) = "merge" =>
                      /\ resp[p].detail \in {"Examples are required", "README is required"}
                      /\ resp[p].detail = "Examples are required" => loc[p].examples = JNull
                      /\ resp[p].detail = "README is required" => ~loc[p].readme.has
                 /\ LastEvent(p) = "images_get" =>
                      /\ resp[p].detail = "Registration failed"
                      /\ resp[p].exc.tag = "Image not found locally"
                 /\ LastEvent(p) = "cleanup" =>
                      /\ resp[p].detail = "Registration failed"
                      /\ resp[p].exc.tag \in DryRunFailures
                 /\ LastEvent(p) \in {"merge", "images_get", "cleanup"}

\* A dry run whose legacy output was not JSON: the request is answered 400
\* with the message and the container output of the failed run.
C16_Witness ==
    \E p \in Procs :
        /\ loc[p].kind = "register"
        /\ pc[p] = "done"
        /\ resp[p].status = 400
        /\ resp[p].exc.tag = "Model execution failed"
        /\ resp[p].exc.cause = "Legacy pattern failed - stdout is not valid JSON"
        /\ InLog(p, "legacy_returned")

\* C17: whenever _run_model_container raises after a container has returned
\* output (container_result is assigned), the message of the exception
\* contains that output.
C17_DiagnosticsInFailures ==
    \A p \in Procs :
        ( /\ pc[p] \in {"run_cleanup", "done", "lb_iter"}
          /\ loc[p].exc.tag \in DryRunFailures
          /\ loc[p].cres.has ) =>
        loc[p].exc.info = SomeT(loc[p].cres.val)

SessionPcs == RunPcs \cup {"ex_readme", "ex_examples", "ex_cleanup"}

\* C18, in every state: sessions that are open at the same time have
\* different tokens; the input file of a running invocation is the one it
\* wrote; predictions about to be returned are those decoded from the
\* invocation's own output file, which came from its own container.
C18_OwnFilesOnly ==
    /\ \A p, q \in AllProcs :
         (p # q /\ pc[p] \in SessionPcs /\ pc[q] \in SessionPcs) =>
             loc[p].sid # loc[q].sid
    /\ \A p \in AllProcs :
         /\ pc[p] \in {"run_new", "run_legacy", "run_blocked"} =>
              /\ Exists(volume, "input", loc[p].sid)
              /\ ReadFile(volume, "input", loc[p].sid) = JsonDumps(loc[p].input_data)
         /\ pc[p] = "run_read" => Exists(volume, "output", loc[p].sid)
         /\ (pc[p] = "run_cleanup" /\ loc[p].exc = NoExc) =>
              /\ Exists(volume, "output", loc[p].sid)
              /\ loc[p].preds = JsonLoads(ReadFile(volume, "output", loc[p].sid)).v
              /\ loc[p].preds =
                   IF loc[p].new_pattern_used
                   THEN JsonLoads(loc[p].new_file.val).v
                   ELSE LegacyDecode(loc[p].cres.val).v

\* C18, in every step: each file created, rewritten or removed carries the
\* session token of the invocation that takes the step.
C18_TouchesOwnSession ==
    \A f \in (volume \ volume') \cup (volume' \ volume) :
        \E p \in AllProcs : pc'[p] # pc[p] /\ f.sid = loc'[p].sid

\* C18: concurrent invocations of _run_model_container (and of the metadata
\* extraction) read, write and delete only the files of their own session.
C18_SessionIsolation == []C18_OwnFilesOnly /\ [][C18_TouchesOwnSession]_vars

\* Two invocations at once, each with its output file on the volume: one
\* is about to clean up while the other has yet to read its file.
C18_Witness ==
    \E p, q \in ConcWorkers :
        /\ p # q
        /\ pc[p] = "run_cleanup"
        /\ loc[p].exc = NoExc
        /\ pc[q] = "run_read"
        /\ Exists(volume, "output", loc[p].sid)
        /\ Exists(volume, "output", loc[q].sid)
        /\ Exists(volume, "input", loc[q].sid)

\* C19, in every state: at most one record per image.
C19_OneRecordPerImage ==
    \A d1, d2 \in registry : d1.image = d2.image => d1 = d2

\* C19, in every step that changes the registry: one registration whose dry
\* run has returned puts its whole document in the place of whatever was
\* stored for its image; the other records stay as they are.
C19_ReplacedWholesale ==
    registry' # registry =>
        \E p \in AllProcs :
            /\ pc[p] = "upsert"
            /\ pc'[p] # "upsert"
            /\ loc[p].exc = NoExc
            /\ DryRunReturned(p)
            /\ Records(registry') =
                   Records({ d \in registry : d.image # loc[p].req.image })
                       \cup {DocOf(loc[p])}

\* C19: under concurrent registrations of one image there is at every
\* moment at most one record of the image, and it is, in all fields, the
\* document of one registration whose dry run succeeded.
C19_WholesaleUnderConcurrency ==
    []C19_OneRecordPerImage /\ [][C19_ReplacedWholesale]_vars

\* Two registrations of m1 in flight at once: one has stored its document,
\* the other, which differs in every field, is about to write its own.
C19_Witness ==
    \E p, q \in ConcWorkers :
        /\ p # q
        /\ pc[p] = "upsert"
        /\ JustRegistered(q)
        /\ loc[p].req.image = loc[q].req.image
        /\ DocOf(loc[q]) \in Records(registry)
        /\ DocOf(loc[p]).title # DocOf(loc[q]).title
        /\ DocOf(loc[p]).readme # DocOf(loc[q]).readme
        /\ DocOf(loc[p]).examples # DocOf(loc[q]).examples

\* C20: a POST /models request answered 200 returns the predictions its dry
\* run decoded, these are a non-empty list, and its record has been stored
\* only after that dry run returned.
C20_DryRunConfirmation ==
    \A p \in Procs :
        (loc[p].kind = "register" /\ pc[p] = "done" /\ resp[p].status = 200) =>
            /\ resp[p].predictions = loc[p].preds
            /\ loc[p].preds =
                 IF loc[p].new_pattern_used
                 THEN JsonLoads(loc[p].new_file.val).v
                 ELSE LegacyDecode(loc[p].cres.val).v
            /\ loc[p].preds.t = "arr"
            /\ Len(loc[p].preds.a) > 0
            /\ \E k \in 1..Len(log[p]) :
                 /\ log[p][k] = "read_output"
                 /\ \A j \in 1..k : log[p][j] # "upsert"

\* Steps of a built-in registration: extraction, validation, dry run, upsert.
RegistrationEvents ==
    {"extract", "cp_readme", "cp_examples", "merge", "images_get",
     "write_input", "run_new", "run_legacy", "read_output", "cleanup", "upsert"}

\* C21 (state part): as long as the store has not answered a probe, and
\* for good once the probe budget is exhausted, startup has done nothing of
\* a built-in registration: no descriptor read, no session opened, no file
\* written, no record stored.
C21_NothingBeforeReady ==
    ~loc[Boot].mongo_ready =>
        /\ pc[Boot] \in {"wait_mongo", "startup_raised"}
        /\ registry = {} /\ volume = {} /\ nextSid = 1
        /\ loc[Boot].idx = 0 /\ loc[Boot].outcomes = <<>>
        /\ \A k \in 1..Len(log[Boot]) : log[Boot][k] \notin RegistrationEvents

\* C21 (exhaustion): the exhausted budget ends startup_event where it is.
C21_ExhaustedEndsStartup ==
    (InLog(Boot, "ping_exhausted") \/ phase = "failed") =>
        /\ pc[Boot] = "startup_raised"
        /\ ~loc[Boot].mongo_ready

\* C21 (step part): every step that belongs to a built-in registration is
\* taken after the successful probe, and no step follows the exhaustion.
C21_StepsAfterReady ==
    [][/\ pc[Boot] # "startup_raised"
       /\ (pc[Boot] # "wait_mongo" => loc[Boot].mongo_ready)]_vars

\* C21: bootstrap ordering -- no step of a built-in registration before
\* the store answered a liveness probe; none at all when the probe budget
\* is exhausted.
C21_BootstrapOrdering ==
    /\ []C21_NothingBeforeReady
    /\ []C21_ExhaustedEndsStartup
    /\ C21_StepsAfterReady

\* A built-in model stored by a startup whose probe had succeeded.
C21_Witness ==
    /\ JustRegistered(Boot)
    /\ loc[Boot].mongo_ready
    /\ registry # {}

LegacyNotJson == "Legacy pattern failed - stdout is not valid JSON"
NoOutputFile == "Model did not create output file"

\* _run_model_container of p has just stopped working and is about to run
\* its finally-block.
RunEnding(p) == pc[p] = "run_cleanup" /\ InLog(p, "write_input")

\* Both containers have been run and no output file is on the volume.
MissingAfterBoth(p) ==
    /\ RunEnding(p)
    /\ InLog(p, "run_legacy")
    /\ ~Exists(volume, "output", loc[p].sid)

\* The legacy container returned text that is not a JSON document.
LegacyOutputNotJson(p) ==
    /\ RunEnding(p)
    /\ InLog(p, "legacy_returned")
    /\ ~JsonLoads(Strip(loc[p].cres.val)).ok

\* The output file was read and does not hold a JSON document.
OutputFileMalformed(p) ==
    /\ RunEnding(p)
    /\ InLog(p, "read_output")
    /\ Exists(volume, "output", loc[p].sid)
    /\ ~JsonLoads(ReadFile(volume, "output", loc[p].sid)).ok

\* C22 as claimed: a legacy output that is not JSON fails with the legacy
\* reason, a malformed output file with the invalid-JSON reason, and an
\* output file still missing after both attempts with the
\* no-output-file reason; none of the three returns predictions.
C22_ReasonByCause ==
    \A p \in Procs :
        /\ LegacyOutputNotJson(p) =>
              /\ loc[p].exc.cause = LegacyNotJson /\ loc[p].preds = JNull
        /\ OutputFileMalformed(p) =>
              /\ loc[p].exc = InvalidJsonExc /\ loc[p].preds = JNull
        /\ MissingAfterBoth(p) =>
              /\ loc[p].exc.cause = NoOutputFile /\ loc[p].preds = JNull

\* The lines of a returned text.
LinesOf(text) == IF text = <<>> THEN <<>> ELSE SplitLines(text, 1, <<>>)

\* The non-blank lines of a raw output, in order, without the whitespace
\* around them.
NonBlankLines(raw) ==
    LET ls == SplitLines(raw, 1, <<>>)
    IN SelectSeq([k \in 1..Len(ls) |-> Strip(ls[k])], LAMBDA l : l # <<>>)

ContainsAny(line, markers) == \E m \in markers : HasSub(line, m)

SourceMarkers == { stderr_indicators[k] : k \in 1..Len(stderr_indicators) }

\* The markers as the claim lists them.
ClaimedMarkers ==
    { <<"L", "o", "a", "d", "i", "n", "g">>,
      <<"P", "r", "o", "c", "e", "s", "s", "i", "n", "g">>,
      <<"E", "r", "r", "o", "r", ":">>,
      <<"W", "a", "r", "n", "i", "n", "g", ":">>,
      <<"C", "o", "m", "p", "l", "e", "t", "e", "d">>,
      <<"S", "t", "a", "r", "t", "i", "n", "g">>,
      <<"r", "e", "c", "o", "r", "d", "s">>,
      <<"w", "r", "i", "t", "t", "e", "n", " ", "t", "o">>,
      <<"S", "u", "c", "c", "e", "s", "s", "f", "u", "l", "l", "y", " ", "g", "e", "n", "e", "r", "a", "t", "e", "d">>,
      <<"M", "o", "d", "e", "l", " ", "l", "o", "a", "d", "e", "d">> }

\* out and err are the two complementary subsequences of the non-blank
\* lines of raw, err holding the lines that contain one of markers.
PartitionOf(raw, out, err, markers) ==
    LET nb == NonBlankLines(raw)
    IN /\ LinesOf(err) = SelectSeq(nb, LAMBDA l : ContainsAny(l, markers))
       /\ LinesOf(out) = SelectSeq(nb, LAMBDA l : ~ContainsAny(l, markers))
       /\ Len(LinesOf(err)) + Len(LinesOf(out)) = Len(nb)
       /\ \A k \in 1..Len(LinesOf(err)) : LinesOf(err)[k] # <<>>
       /\ \A k \in 1..Len(LinesOf(out)) : LinesOf(out)[k] # <<>>

PartitionBy(p, markers) ==
    PartitionOf(loc[p].cres.val, loc[p].stdout, loc[p].stderr, markers)

Classified(p) == pc[p] \in {"run_cleanup", "done"} /\ InLog(p, "read_output")

\* C23 as claimed: the classification is a partition of the non-blank lines
\* in which a line is in stderr exactly if it contains one of "Loading",
\* "Processing", "Error:", "Warning:", "Completed", "Starting", "records",
\* "written to", "Successfully generated", "Model loaded" or another marker
\* of the source.
C23_ClaimedMarkers ==
    \A p \in Workers :
        Classified(p) => PartitionBy(p, SourceMarkers \cup ClaimedMarkers)

\* C23 amended: when the raw output decodes and is classified, each of
\* its non-blank lines, without the
\* whitespace around it, is in exactly one of stdout and stderr, in its
\* original relative order; it is in stderr exactly if it contains one of
\* the eleven markers of the source, where the marker is "Completed
\* processing" and not "Completed"; blank lines are in neither.
C23_ClassificationPartition ==
    \A p \in Workers :
        Classified(p) => PartitionBy(p, SourceMarkers)

\* An output with a blank line, a padded result line, a marker line and a
\* line that says "Completed" only.
C23_Witness ==
    \E p \in Workers :
        /\ pc[p] = "run_cleanup"
        /\ loc[p].cres = SomeT(JoinLines(<<<<" ", "o", "k">>, <<>>, <<"L", "o", "a", "d", "i", "n", "g">>>>) \o <<"\n">> \o <<"C", "o", "m", "p", "l", "e", "t", "e", "d">>)
        /\ loc[p].stdout = <<"o", "k", "\n", "C", "o", "m", "p", "l", "e", "t", "e", "d">>
        /\ loc[p].stderr = <<"L", "o", "a", "d", "i", "n", "g">>

\* The steps of one session of _run_model_container, as logged.
SessionEvents ==
    {"write_input", "run_new", "new_returned", "new_raised", "run_legacy",
     "legacy_returned", "legacy_raised", "blocked", "read_output", "cleanup"}

SessionTrace(p) == SelectSeq(log[p], LAMBDA ev : ev \in SessionEvents)

\* The orders in which a whole session may run: the input is written, the
\* two-argument container runs, the legacy container may run after it, the
\* output is read after the last container ended well, cleanup comes last.
SessionOrders ==
    { <<"write_input", "run_new", "new_returned", "read_output", "cleanup">>,
      <<"write_input", "run_new", "new_returned", "cleanup">>,
      <<"write_input", "run_new", "new_returned", "run_legacy", "legacy_returned",
        "read_output", "cleanup">>,
      <<"write_input", "run_new", "new_raised", "run_legacy", "legacy_returned",
        "read_output", "cleanup">>,
      <<"write_input", "run_new", "new_returned", "run_legacy", "legacy_returned",
        "cleanup">>,
      <<"write_input", "run_new", "new_raised", "run_legacy", "legacy_returned",
        "cleanup">>,
      <<"write_input", "run_new", "new_returned", "run_legacy", "legacy_raised",
        "cleanup">>,
      <<"write_input", "run_new", "new_raised", "run_legacy", "legacy_raised",
        "cleanup">>,
      <<"write_input", "run_new", "blocked">>,
      <<"write_input", "run_new", "new_returned", "run_legacy", "blocked">>,
      <<"write_input", "run_new", "new_raised", "run_legacy", "blocked">> }

IsPrefix(a, b) == Len(a) <= Len(b) /\ SubSeq(b, 1, Len(a)) = a

\* C24: the steps of a session are strictly ordered.  The input file is
\* completely written before a container is started and stays until the
\* cleanup; the output is read only after the last container attempt has
\* ended; the files are deleted only after the output has been read or the
\* failure has been determined; nothing of the session runs after its
\* cleanup.
C24_SessionOrder ==
    \A p \in Procs :
        LET tr == SessionTrace(p)
        IN /\ \E o \in SessionOrders : IsPrefix(tr, o)
           /\ pc[p] \in RunPcs =>
                 /\ Exists(volume, "input", loc[p].sid)
                 /\ ReadFile(volume, "input", loc[p].sid) = JsonDumps(loc[p].input_data)
                 /\ ~InLog(p, "cleanup")
           /\ pc[p] = "run_read" =>
                 tr[Len(tr)] \in {"new_returned", "legacy_returned"}
           /\ pc[p] = "run_cleanup" =>
                 \/ InLog(p, "read_output")
                 \/ loc[p].exc # NoExc
           /\ InLog(p, "cleanup") =>
                 /\ tr[Len(tr)] = "cleanup"
                 /\ pc[p] \notin RunPcs
                 /\ ~Exists(volume, "input", loc[p].sid)
                 /\ ~Exists(volume, "output", loc[p].sid)

\* A session that ran both containers, read the output and cleaned up.
C24_Witness ==
    \E p \in Procs :
        SessionTrace(p) =
            <<"write_input", "run_new", "new_raised", "run_legacy",
              "legacy_returned", "read_output", "cleanup">>

\* The handlers that only read: POST /predict, GET /models,
\* GET /models/{image_tag}, GET /health.
ReadKinds == {"predict", "list", "info", "health"}

\* p takes this step, and takes it while serving a read operation.
ReadStepOf(p) ==
    /\ pc'[p] # pc[p] \/ loc'[p] # loc[p] \/ resp'[p] # resp[p]
    /\ loc[p].kind \in ReadKinds \/ loc'[p].kind \in ReadKinds

\* C25: no step of POST /predict (whether it answers 200, 404 or 500), of
\* GET /models, of GET /models/{image_tag} or of GET /health inserts,
\* replaces or removes a record of the registry.
C25_ReadsLeaveRegistry ==
    [][\A p \in Workers : ReadStepOf(p) => registry' = registry]_vars

\* A failed prediction answered while a model is registered.
C25_Witness ==
    \E p \in Workers :
        /\ pc[p] = "done"
        /\ loc[p].kind = "predict"
        /\ resp[p].status = 500
        /\ registry # {}

ExtractPcs == {"ex_readme", "ex_examples", "ex_cleanup"}

\* _extract_container_metadata of p has built its result and is about to
\* return it through the finally-block; the copies are still on the volume.
ExtractReturning(p) == pc[p] = "ex_cleanup"

\* The copy of a file of the extraction p is there and can be read as
\* text.
Readable(p, kind) ==
    /\ Exists(volume, kind, loc[p].sid)
    /\ DecodeOk(ReadFile(volume, kind, loc[p].sid))

\* The copy of examples.json is there and holds a JSON document.
Parsed(p) ==
    /\ Readable(p, "examples")
    /\ JsonLoads(ReadFile(volume, "examples", loc[p].sid)).ok

\* C26 as claimed: _extract_container_metadata never raises.  Its result
\* has the readme whenever README.md was copied, whatever happened to the
\* examples, and the examples whenever examples.json was copied and holds
\* JSON, whatever happened to the readme; a missing file costs its own key
\* only.
C26_ReadmeWheneverCopied ==
    \A p \in Procs :
        /\ pc[p] \in ExtractPcs \cup {"merge"} =>
              /\ loc[p].exc = NoExc
              /\ resp[p] = NoResp
        /\ ExtractReturning(p) =>
              LET sid == loc[p].sid
                  readme_copied == Exists(volume, "readme", sid)
              IN /\ readme_copied =>
                       loc[p].cm_readme = SomeT(ReadFile(volume, "readme", sid))
                 /\ ~readme_copied => loc[p].cm_readme = NoneT
                 /\ Parsed(p) =>
                       loc[p].cm_examples =
                           SomeV(JsonLoads(ReadFile(volume, "examples", sid)).v)
                 /\ ~Exists(volume, "examples", sid) => loc[p].cm_examples = NoneV

\* C26 amended: _extract_container_metadata never raises.  Its result has
\* the readme exactly when README.md was copied and the copy is UTF-8
\* text, whatever happened to the examples, and the examples exactly when
\* examples.json was copied and holds JSON, whatever happened to the
\* readme; a file that is missing or unusable costs its own key only.
C26_ExtractionIndependent ==
    \A p \in Procs :
        /\ pc[p] \in ExtractPcs \cup {"merge"} =>
              /\ loc[p].exc = NoExc
              /\ resp[p] = NoResp
        /\ ExtractReturning(p) =>
              LET sid == loc[p].sid
              IN /\ Readable(p, "readme") =>
                       loc[p].cm_readme = SomeT(ReadFile(volume, "readme", sid))
                 /\ ~Readable(p, "readme") => loc[p].cm_readme = NoneT
                 /\ Parsed(p) =>
                       loc[p].cm_examples =
                           SomeV(JsonLoads(ReadFile(volume, "examples", sid)).v)
                 /\ ~Parsed(p) => loc[p].cm_examples = NoneV

\* README.md copied and returned although examples.json does not parse.
C26_Witness ==
    \E p \in Procs :
        /\ ExtractReturning(p)
        /\ Exists(volume, "examples", loc[p].sid)
        /\ ~JsonLoads(ReadFile(volume, "examples", loc[p].sid)).ok
        /\ loc[p].cm_readme = SomeT(<<"b">>)
        /\ loc[p].cm_examples = NoneV

\* C27: a readme_<token>.md or examples_<token>.json on the shared volume
\* belongs to an extraction that is still running; once
\* _extract_container_metadata has returned, on whatever path, neither file
\* of its session remains.
C27_ExtractionCleanup ==
    /\ \A f \in volume :
         f.kind \in {"readme", "examples"} =>
             \E p \in Procs : pc[p] \in ExtractPcs /\ loc[p].sid = f.sid
    /\ \A p \in Procs :
         pc[p] = "merge" =>
             /\ ~Exists(volume, "readme", loc[p].sid)
             /\ ~Exists(volume, "examples", loc[p].sid)

\* An extraction that had copied both files has returned.
C27_Witness ==
    \E p \in Procs :
        /\ pc[p] = "merge"
        /\ loc[p].cm_readme.has
        /\ loc[p].cm_examples.has
        /\ \A f \in volume : f.sid # loc[p].sid

\* C28: bootstrap and API registration are the same validator.  For every
\* descriptor and every result of the extraction, the two ways of merging
\* and validating agree on rejecting, and agree on the examples and the
\* readme that go on to the dry run and into the stored document; the
\* image is then looked up in the same local store whichever way is taken.
C28_SameValidator ==
    \A p \in Procs :
        /\ pc[p] = "merge" =>
              LET l == loc[p]
                  exA == ApiExamples(l.req.examples, l.cm_examples)
                  rdA == ApiReadme(l.req.readme, l.cm_readme)
                  exB == BootExamples(l.req.examples, l.cm_examples)
                  rdB == BootReadme(l.req.readme, l.cm_readme)
                  rejA == ApiMissingExamples(exA) \/ ApiMissingReadme(rdA)
                  rejB == BootMissingExamples(exB) \/ BootMissingReadme(rdB)
              IN /\ rejA <=> rejB
                 /\ ~rejA => (exA = exB /\ rdA = rdB)
        /\ pc[p] = "images_get" =>
              (ImagesGetOk(loc[p].req.image, local)
                  <=> loc[p].req.image \in LocalAtStart \cup Published)

\* p is a registration that has just ended in failure.
RegistrationFailed(p) ==
    \/ /\ loc[p].kind = "register"
       /\ pc[p] = "done"
       /\ resp[p].status # 200
    \/ /\ loc[p].kind = "bootstrap"
       /\ pc[p] = "lb_iter"
       /\ loc[p].outcomes # <<>>
       /\ loc[p].outcomes[Len(loc[p].outcomes)] = "failed"

\* C29 (steps): the only step of a registration that changes the registry
\* is its upsert, which leaves the records of all other images as they
\* are and makes the record of its image the registered document.
C29_RegistrationStep ==
    \A p \in Procs :
        (pc'[p] # pc[p] /\ loc[p].kind \in {"register", "bootstrap"}) =>
            LET X == loc[p].req.image
            IN IF pc[p] = "upsert"
               THEN /\ { d \in registry' : d.image # X } = { d \in registry : d.image # X }
                    /\ Cardinality(Matching(registry', X)) = 1
                    /\ Records(Matching(registry', X)) = {DocOf(loc[p])}
                    /\ ~RegistrationFailed(p)'
               ELSE registry' = registry

\* C29 (failure): a registration that fails has made no upsert.
C29_FailedWithoutUpsert ==
    \A p \in Procs : RegistrationFailed(p) => ~InLog(p, "upsert")

\* C29: a registration of X that fails leaves the registry exactly as it
\* was; one that succeeds changes the record of X and no other record.
C29_RegistrationFrame ==
    []C29_FailedWithoutUpsert /\ [][C29_RegistrationStep]_vars

\* A registration has just stored its record next to another image's.
C29_Witness ==
    \E p \in Procs :
        /\ JustRegistered(p)
        /\ \E d \in registry : d.image # loc[p].req.image
        /\ \E d \in registry : d.image = loc[p].req.image

\* Position of the only occurrence of ev in the log of p.
IndexOf(p, ev) == CHOOSE k \in 1..Len(log[p]) : log[p][k] = ev

\* _run_model_container of p has returned its result to the caller.
RunReturned(p) ==
    /\ pc[p] \in {"upsert_find", "upsert", "done", "lb_iter"}
    /\ InLog(p, "cleanup")
    /\ loc[p].exc = NoExc

\* C30: one invocation starts the two-argument container exactly once,
\* the legacy container at most once and only after the two-argument
\* attempt has ended without success, and never a third container; the
\* stdout and stderr it returns are the classification of what the
\* container started last has printed.
C30_ContainerAttempts ==
    \A p \in Procs :
        /\ CountOf(log[p], "run_new") <= 1
        /\ CountOf(log[p], "run_legacy") <= 1
        /\ (InLog(p, "write_input") /\ pc[p] # "run_new") =>
              CountOf(log[p], "run_new") = 1
        /\ InLog(p, "run_legacy") =>
              /\ \/ InLog(p, "new_raised")
                 \/ InLog(p, "new_returned") /\ ~loc[p].new_file.has
              /\ \E k \in 1..Len(log[p]) :
                    /\ log[p][k] \in {"new_raised", "new_returned"}
                    /\ k < IndexOf(p, "run_legacy")
        /\ RunReturned(p) =>
              /\ loc[p].last_out.has
              /\ PartitionOf(loc[p].last_out.val, loc[p].stdout, loc[p].stderr,
                             SourceMarkers)

\* Both containers ran and printed different texts; the result carries the
\* lines of the second.
C30_Witness ==
    \E p \in Procs :
        /\ RunReturned(p)
        /\ InLog(p, "new_returned")
        /\ InLog(p, "legacy_returned")
        /\ loc[p].last_out = SomeT(<<"[", "3", "]", "\n">>)
        /\ loc[p].stdout = <<"[", "3", "]">>
        /\ loc[p].stderr = <<>>

====
